---- MODULE Spec2Model ----
(***************************************************************************)
(* CirqProjectQ: the ProjectQ -> Cirq translation back end.                *)
(*                                                                         *)
(*   cirqprojectq/_rules_pq_to_cirq.py  the rule registry                  *)
(*   cirqprojectq/common_rules_03x.py   translation functions, common gates*)
(*   cirqprojectq/xmon_rules_03x.py     translation functions, xmon gates  *)
(*   cirqprojectq/circ_engine.py        the streaming engine CIRQ          *)
(*   cirqprojectq/xmon_gates.py         the native gates and their matrices*)
(*   cirqprojectq/xmon_decompositions.py the decomposition rules           *)
(*                                                                         *)
(* Data representation.                                                    *)
(*   - A gate's kind is its Python class, written as the class name.       *)
(*     Gate equality (==, in) is equality of kinds.                        *)
(*   - A command is a record: gate (kind), qubits (the ids of cmd.qubits,  *)
(*     flattened in order), control_qubits (ids, in the command's order),  *)
(*     angle / axis_angle (radians, see Rad) and matrix (the gate's        *)
(*     matrix attribute when the caller attached one).                     *)
(*   - A Python dict is a function; `k in d` is k \in DOMAIN d.            *)
(*   - A Python exception is a value: a translation function returns       *)
(*     Ok(op) or Raise(name); the engine keeps what it raised in err.      *)
(*   - A cirq operation is a record: the gate as constructed, the qubit    *)
(*     list it is applied to, and whether it is wrapped in ControlledGate. *)
(*   - A cirq circuit is its list of moments, each the list of operations  *)
(*     placed in it.                                                       *)
(***************************************************************************)
EXTENDS Integers, Sequences, FiniteSets, TLC

VARIABLES
    known_rules,      \* Ruleset_pq_to_cirq._known_rules: kind -> list of functions
    mapping,          \* CIRQ._mapping: qubit id -> position
    inverse_mapping,  \* CIRQ._inverse_mapping
    operations,       \* CIRQ._operations: the pending buffer
    circuit,          \* CIRQ._circuit
    new,              \* CIRQ._new: the fresh-batch flag
    calling,          \* TRUE while a receive call is iterating over its list
    err,              \* what the last engine call raised (NoError when it returned)
    result,           \* what the last direct call (translate, constructor, rewriter) returned or raised
    ret,              \* what the last is_available, matrix or recognizer call returned
    last,             \* the last call made: <<name, argument>>
    reglog,           \* history: the (kind, function) registrations, in order
    nrules,           \* history: add_rule / add_rules calls made
    ngates,           \* history: gate commands received since construction/reset
    failed,           \* history: a translation failed since construction/reset
    strategy,         \* CIRQ.strategy: the insert strategy given at construction
    CORRECT_PHASES,   \* xmon_decompositions.CORRECT_PHASES: the module's policy flag
    has_rules         \* hasattr(self, '_rules'): __init__ assigned CIRQ._rules

vars == <<known_rules, mapping, inverse_mapping, operations, circuit, new,
          calling, err, result, ret, last, reglog, nrules, ngates,
          failed, strategy, CORRECT_PHASES, has_rules>>

engine_vars == <<mapping, inverse_mapping, operations, circuit, new>>

\* Set at construction / import and read afterwards.
config_vars == <<strategy, CORRECT_PHASES, has_rules>>

-----------------------------------------------------------------------------
\* Bounds of the model.

\* Qubit ids are 0..MaxQubitId.
MaxQubitId == 2

\* Length of the qubit register the engine is constructed with.
NumQubits == 2

\* Gate commands received between two resets.
MaxOps == 2

\* add_rule / add_rules calls made on a registry.
MaxRules == 2

\* Control qubits of a command handed to translate.
MaxControls == 2

QubitIds == 0..MaxQubitId

Positions == 0..MaxQubitId

-----------------------------------------------------------------------------
\* Values.

\* n * pi/20 radians.
Rad(n) == [rad20 |-> n]

\* x / cmath.pi for x = n*pi/20: the number of half turns, in twentieths.
DivPi(x) == x.rad20

NoAngle == [none |-> TRUE]

NoMatrix == "NoMatrix"

Command(g, qs, cs, a, ax, m) ==
    [gate |-> g, qubits |-> qs, control_qubits |-> cs,
     angle |-> a, axis_angle |-> ax, matrix |-> m]

Plain(g, qs, cs) == Command(g, qs, cs, NoAngle, NoAngle, NoMatrix)

Rotation(g, qs, cs, n) == Command(g, qs, cs, Rad(n), NoAngle, NoMatrix)

NoError == "none"

NoOp == [none |-> TRUE]

Ok(op) == [error |-> NoError, op |-> op]

Raise(e) == [error |-> e, op |-> NoOp]

\* A cirq gate object: the class and the arguments it was constructed with.
CirqGate(name, args) == [name |-> name, args |-> args]

\* gate(*qs)
GateOp(g, qs) == [gate |-> g, qubits |-> qs, controlled |-> FALSE]

\* cop.ControlledGate(gate)(*qs)
ControlledOp(g, qs) == [gate |-> g, qubits |-> qs, controlled |-> TRUE]

GridQubit(col) == [row |-> 0, col |-> col]

Register(n) == [i \in 1..n |-> GridQubit(i - 1)]

\* The register given to CIRQ(qubits=...).
qubits == Register(NumQubits)

-----------------------------------------------------------------------------
\* Python primitives the translation functions use.

EmptyDict == [k \in {} |-> 0]

\* Every id of the list is a key of the dict d.
AllKeys(d, ids) == \A i \in 1..Len(ids) : ids[i] \in DOMAIN d

\* [d[id] for id in ids]
Lookup(d, ids) == [i \in 1..Len(ids) |-> d[ids[i]]]

\* Every index of the list is inside the (0-based) list xs; ids are never negative.
AllInRange(xs, idx) == \A i \in 1..Len(idx) : idx[i] \in 0..(Len(xs) - 1)

\* [xs[i] for i in idx]
Index(xs, idx) == [i \in 1..Len(idx) |-> xs[idx[i] + 1]]

\* d[k] = v
set_item(d, k, v) == [x \in DOMAIN d \cup {k} |-> IF x = k THEN v ELSE d[x]]

\* len(x): TypeError when x is an int.
py_len(x) == IF x \in Int THEN Raise("TypeError") ELSE Ok(Len(x))

\* projectq.meta.get_control_count
get_control_count(cmd) == Len(cmd.control_qubits)

-----------------------------------------------------------------------------
\* common_rules_03x.py: translation functions of the common gates.

\* Faulty variant of _rx_ry_rz: the target is put before the controls.
rx_ry_rz_target_first(cmd, mapping_, qubits_) ==
    LET gates == [Rx |-> "RotXGate", Ry |-> "RotYGate", Rz |-> "RotZGate"]
    IN  IF ~AllKeys(mapping_, cmd.qubits) THEN Raise("KeyError")
        ELSE LET qb_pos == Lookup(mapping_, cmd.qubits)
        IN  IF Len(qb_pos) # 1 THEN Raise("AssertionError")
            ELSE IF cmd.gate \notin DOMAIN gates THEN Raise("KeyError")
            ELSE LET cirqGate == CirqGate(gates[cmd.gate],
                                          [half_turns |-> DivPi(cmd.angle)])
            IN  IF get_control_count(cmd) > 0
                THEN IF ~AllKeys(mapping_, cmd.control_qubits) THEN Raise("KeyError")
                     ELSE LET ctrl_pos == Lookup(mapping_, cmd.control_qubits)
                     IN  IF ~AllInRange(qubits_, qb_pos \o ctrl_pos)
                         THEN Raise("IndexError")
                         ELSE Ok(ControlledOp(cirqGate,
                                              Index(qubits_, qb_pos \o ctrl_pos)))
                ELSE IF ~AllInRange(qubits_, qb_pos) THEN Raise("IndexError")
                     ELSE Ok(GateOp(cirqGate, Index(qubits_, qb_pos)))

_rx_ry_rz(cmd, mapping_, qubits_) ==
    LET gates == [Rx |-> "RotXGate", Ry |-> "RotYGate", Rz |-> "RotZGate"]
    IN  IF ~AllKeys(mapping_, cmd.qubits) THEN Raise("KeyError")
        ELSE LET qb_pos == Lookup(mapping_, cmd.qubits)
        IN  IF Len(qb_pos) # 1 THEN Raise("AssertionError")
            ELSE IF cmd.gate \notin DOMAIN gates THEN Raise("KeyError")
            ELSE LET cirqGate == CirqGate(gates[cmd.gate],
                                          [half_turns |-> DivPi(cmd.angle)])
            IN  IF get_control_count(cmd) > 0
                THEN IF ~AllKeys(mapping_, cmd.control_qubits) THEN Raise("KeyError")
                     ELSE LET ctrl_pos == Lookup(mapping_, cmd.control_qubits)
                     IN  IF ~AllInRange(qubits_, ctrl_pos \o qb_pos)
                         THEN Raise("IndexError")
                         ELSE Ok(ControlledOp(cirqGate,
                                              Index(qubits_, ctrl_pos \o qb_pos)))
                ELSE IF ~AllInRange(qubits_, qb_pos) THEN Raise("IndexError")
                     ELSE Ok(GateOp(cirqGate, Index(qubits_, qb_pos)))

_pauli_gates(cmd, mapping_, qubits_) ==
    LET gates == [XGate |-> "X", YGate |-> "Y", ZGate |-> "Z"]
    IN  IF ~AllKeys(mapping_, cmd.qubits) THEN Raise("KeyError")
        ELSE LET qb_pos == Lookup(mapping_, cmd.qubits)
        IN  IF Len(qb_pos) # 1 THEN Raise("AssertionError")
            ELSE IF cmd.gate \notin DOMAIN gates THEN Raise("KeyError")
            ELSE LET cirqGate == CirqGate(gates[cmd.gate], <<>>)
            IN  IF get_control_count(cmd) > 0
                THEN IF ~AllKeys(mapping_, cmd.control_qubits) THEN Raise("KeyError")
                     ELSE LET ctrl_pos == Lookup(mapping_, cmd.control_qubits)
                     IN  IF ~AllInRange(qubits_, ctrl_pos \o qb_pos)
                         THEN Raise("IndexError")
                         ELSE Ok(ControlledOp(cirqGate,
                                              Index(qubits_, ctrl_pos \o qb_pos)))
                ELSE IF ~AllInRange(qubits_, qb_pos) THEN Raise("IndexError")
                     ELSE Ok(GateOp(cirqGate, Index(qubits_, qb_pos)))

_h_s_gate(cmd, mapping_, qubits_) ==
    LET gates == [HGate |-> "H", SGate |-> "S"]
    IN  IF ~AllKeys(mapping_, cmd.qubits) THEN Raise("KeyError")
        ELSE LET qb_pos == Lookup(mapping_, cmd.qubits)
        IN  IF Len(qb_pos) # 1 THEN Raise("AssertionError")
            ELSE IF cmd.gate \notin DOMAIN gates THEN Raise("KeyError")
            ELSE LET cirqGate == CirqGate(gates[cmd.gate], <<>>)
            IN  IF get_control_count(cmd) > 0
                THEN IF ~AllKeys(mapping_, cmd.control_qubits) THEN Raise("KeyError")
                     ELSE LET ctrl_pos == Lookup(mapping_, cmd.control_qubits)
                     IN  IF ~AllInRange(qubits_, ctrl_pos \o qb_pos)
                         THEN Raise("IndexError")
                         ELSE Ok(ControlledOp(cirqGate,
                                              Index(qubits_, ctrl_pos \o qb_pos)))
                ELSE IF ~AllInRange(qubits_, qb_pos) THEN Raise("IndexError")
                     ELSE Ok(GateOp(cirqGate, Index(qubits_, qb_pos)))

\* hasattr(gate, 'matrix')
has_matrix(cmd) == cmd.matrix # NoMatrix

\* Line 129 applies len() to the integer get_control_count returns: the
\* TypeError is raised before either branch is chosen.
_gates_with_known_matrix(cmd, mapping_, qubits_) ==
    LET n == py_len(get_control_count(cmd))
        matrixGate == CirqGate("SingleQubitMatrixGate", [matrix |-> cmd.matrix])
    IN  IF n.error # NoError THEN Raise(n.error)
        ELSE IF n.op = 0 /\ has_matrix(cmd)
        THEN IF ~AllKeys(mapping_, cmd.qubits) THEN Raise("KeyError")
             ELSE LET qb_pos == Lookup(mapping_, cmd.qubits)
             IN  IF ~AllInRange(qubits_, qb_pos) THEN Raise("IndexError")
                 ELSE Ok(GateOp(matrixGate, Index(qubits_, qb_pos)))
        ELSE IF n.op > 0 /\ has_matrix(cmd)
        THEN IF ~AllKeys(mapping_, cmd.qubits \o cmd.control_qubits)
             THEN Raise("KeyError")
             ELSE LET qb_pos == Lookup(mapping_, cmd.qubits)
                      ctrl_pos == Lookup(mapping_, cmd.control_qubits)
             IN  IF ~AllInRange(qubits_, qb_pos \o ctrl_pos) THEN Raise("IndexError")
                 ELSE Ok(ControlledOp(matrixGate, Index(qubits_, qb_pos \o ctrl_pos)))
        ELSE Ok(NoOp)

-----------------------------------------------------------------------------
\* xmon_rules_03x.py: translation functions of the xmon gates.

_expWGate(cmd, mapping_, qubits_) ==
    IF ~AllKeys(mapping_, cmd.qubits) THEN Raise("KeyError")
    ELSE LET qb_pos == Lookup(mapping_, cmd.qubits)
    IN  IF Len(qb_pos) # 1 THEN Raise("AssertionError")
        ELSE LET cirqGate == CirqGate("ExpWGate",
                                      [half_turns |-> DivPi(cmd.angle),
                                       axis_half_turns |-> DivPi(cmd.axis_angle)])
        IN  IF get_control_count(cmd) > 0
            THEN IF ~AllKeys(mapping_, cmd.control_qubits) THEN Raise("KeyError")
                 ELSE LET ctrl_pos == Lookup(mapping_, cmd.control_qubits)
                 IN  IF ~AllInRange(qubits_, ctrl_pos \o qb_pos)
                     THEN Raise("IndexError")
                     ELSE Ok(ControlledOp(cirqGate,
                                          Index(qubits_, ctrl_pos \o qb_pos)))
            ELSE IF ~AllInRange(qubits_, qb_pos) THEN Raise("IndexError")
                 ELSE Ok(GateOp(cirqGate, Index(qubits_, qb_pos)))

_expZGate(cmd, mapping_, qubits_) ==
    IF ~AllKeys(mapping_, cmd.qubits) THEN Raise("KeyError")
    ELSE LET qb_pos == Lookup(mapping_, cmd.qubits)
    IN  IF Len(qb_pos) # 1 THEN Raise("AssertionError")
        ELSE LET cirqGate == CirqGate("ExpZGate", [half_turns |-> DivPi(cmd.angle)])
        IN  IF get_control_count(cmd) > 0
            THEN IF ~AllKeys(mapping_, cmd.control_qubits) THEN Raise("KeyError")
                 ELSE LET ctrl_pos == Lookup(mapping_, cmd.control_qubits)
                 IN  IF ~AllInRange(qubits_, ctrl_pos \o qb_pos)
                     THEN Raise("IndexError")
                     ELSE Ok(ControlledOp(cirqGate,
                                          Index(qubits_, ctrl_pos \o qb_pos)))
            ELSE IF ~AllInRange(qubits_, qb_pos) THEN Raise("IndexError")
                 ELSE Ok(GateOp(cirqGate, Index(qubits_, qb_pos)))

_exp11Gate(cmd, mapping_, qubits_) ==
    IF ~AllKeys(mapping_, cmd.qubits) THEN Raise("KeyError")
    ELSE LET qb_pos == Lookup(mapping_, cmd.qubits)
    IN  IF Len(qb_pos) # 2 THEN Raise("AssertionError")
        ELSE LET cirqGate == CirqGate("Exp11Gate", [half_turns |-> DivPi(cmd.angle)])
        IN  IF ~AllInRange(qubits_, qb_pos) THEN Raise("IndexError")
            ELSE Ok(GateOp(cirqGate, Index(qubits_, qb_pos)))

-----------------------------------------------------------------------------
\* _rules_pq_to_cirq.py: rules and the registry.

\* Rule_pq_to_cirq(classes, translation); a translation is named by its function.
Rule(classes, translation) == [classes |-> classes, translation |-> translation]

\* A Python list: the one object here with an __iter__ attribute.
PyList(items) == [__iter__ |-> items]

Rx_Ry_Rz == Rule(<<"Rx", "Ry", "Rz">>, "_rx_ry_rz")

Paulis == Rule(<<"XGate", "YGate", "ZGate">>, "_pauli_gates")

H_S == Rule(<<"HGate", "SGate">>, "_h_s_gate")

Known_Matrix == Rule(<<"BasicGate">>, "_gates_with_known_matrix")

EXP_W == Rule(<<"ExpWGate">>, "_expWGate")

EXP_Z == Rule(<<"ExpZGate">>, "_expZGate")

EXP_11 == Rule(<<"Exp11Gate">>, "_exp11Gate")

ALL_RULES == PyList(<<EXP_W, EXP_Z, EXP_11>>)

\* A translation function a caller wrote: it returns its own operation on the
\* command's first target.
user_translation(fn, cmd, mapping_, qubits_) ==
    IF ~AllKeys(mapping_, cmd.qubits) THEN Raise("KeyError")
    ELSE LET qb_pos == Lookup(mapping_, cmd.qubits)
    IN  IF ~AllInRange(qubits_, qb_pos) THEN Raise("IndexError")
        ELSE Ok(GateOp(CirqGate(fn, <<>>), Index(qubits_, qb_pos)))

\* Calling the function object a rule holds.
Call(fn, cmd, mapping_, qubits_) ==
    CASE fn = "_rx_ry_rz" -> _rx_ry_rz(cmd, mapping_, qubits_)
      [] fn = "_pauli_gates" -> _pauli_gates(cmd, mapping_, qubits_)
      [] fn = "_h_s_gate" -> _h_s_gate(cmd, mapping_, qubits_)
      [] fn = "_gates_with_known_matrix" ->
             _gates_with_known_matrix(cmd, mapping_, qubits_)
      [] fn = "_expWGate" -> _expWGate(cmd, mapping_, qubits_)
      [] fn = "_expZGate" -> _expZGate(cmd, mapping_, qubits_)
      [] fn = "_exp11Gate" -> _exp11Gate(cmd, mapping_, qubits_)
      [] OTHER -> user_translation(fn, cmd, mapping_, qubits_)

\* Faulty variant of append_rule: the new function replaces the kind's list.
append_rule_replaces(kr, cls, translation) ==
    [k \in DOMAIN kr \cup {cls} |-> IF k = cls THEN <<translation>> ELSE kr[k]]

\* self._known_rules[cls].append(translation) on a defaultdict(list)
append_rule(kr, cls, translation) ==
    [k \in DOMAIN kr \cup {cls} |->
        IF k = cls
        THEN (IF cls \in DOMAIN kr THEN kr[cls] ELSE <<>>) \o <<translation>>
        ELSE kr[k]]

RECURSIVE add_rule_loop(_, _, _)
add_rule_loop(kr, rule, i) ==
    IF i > Len(rule.classes) THEN kr
    ELSE add_rule_loop(append_rule(kr, rule.classes[i], rule.translation), rule, i + 1)

\* Ruleset_pq_to_cirq.add_rule
add_rule(kr, rule) == add_rule_loop(kr, rule, 1)

RECURSIVE add_rules_loop(_, _, _)
add_rules_loop(kr, rules, i) ==
    IF i > Len(rules) THEN kr
    ELSE add_rules_loop(add_rule(kr, rules[i]), rules, i + 1)

\* hasattr(rules, '__iter__')
has_iter(rules) == "__iter__" \in DOMAIN rules

\* Ruleset_pq_to_cirq.add_rules
add_rules(kr, rules) ==
    IF has_iter(rules) THEN add_rules_loop(kr, rules.__iter__, 1)
    ELSE add_rule(kr, rules)

\* Ruleset_pq_to_cirq(rules)
Ruleset(rules) == add_rules(EmptyDict, rules)

\* Faulty variant of translate: an unknown kind falls through and returns None.
translate_no_raise(kr, cmd, mapping_, qubits_) ==
    IF cmd.gate \in DOMAIN kr
    THEN Call(kr[cmd.gate][1], cmd, mapping_, qubits_)
    ELSE Ok(NoOp)

\* Ruleset_pq_to_cirq.translate
translate(kr, cmd, mapping_, qubits_) ==
    IF cmd.gate \in DOMAIN kr
    THEN Call(kr[cmd.gate][1], cmd, mapping_, qubits_)
    ELSE Raise("TypeError")

\* Ruleset_pq_to_cirq.known_rules: a copy of the dict
known_rules_copy(kr) == kr

\* common_rules_03x.common_gates_ruleset, as the module builds it on import
common_gates_ruleset == Ruleset(PyList(<<Rx_Ry_Rz, Paulis, H_S, Known_Matrix>>))

\* The registry of an engine constructed with rules=None: the shared
\* common_gates_ruleset with xmon_rules.ALL_RULES added to it.
DefaultRules == add_rules(common_gates_ruleset, ALL_RULES)

-----------------------------------------------------------------------------
\* cirq.Circuit, as circ_engine.py uses it.

\* cirq.circuits.Circuit()
EmptyCircuit == <<>>

\* The moment holds an operation on one of op's qubits.
operates_on(moment, op) ==
    \E i \in 1..Len(moment) :
        \E a \in 1..Len(moment[i].qubits), b \in 1..Len(op.qubits) :
            moment[i].qubits[a] = op.qubits[b]

Max(S) == CHOOSE x \in S : \A y \in S : y <= x

\* InsertStrategy.EARLIEST at the end of the circuit: the moment right after the
\* last one that operates on a qubit of op (the first moment when there is none).
earliest_moment(circ, op) ==
    LET busy == {k \in 1..Len(circ) : operates_on(circ[k], op)}
    IN  IF busy = {} THEN 1 ELSE Max(busy) + 1

insert_earliest(circ, op) ==
    LET p == earliest_moment(circ, op)
    IN  IF p > Len(circ) THEN Append(circ, <<op>>)
        ELSE [circ EXCEPT ![p] = Append(@, op)]

RECURSIVE append_loop(_, _, _)
append_loop(circ, ops, i) ==
    IF i > Len(ops) THEN circ
    ELSE append_loop(insert_earliest(circ, ops[i]), ops, i + 1)

\* circuit.append(ops, strategy=cirq.circuits.InsertStrategy.EARLIEST)
circuit_append(circ, ops) == append_loop(circ, ops, 1)

-----------------------------------------------------------------------------
\* circ_engine.py: the engine CIRQ.

\* raise TypeError("Gate {} not known".format(cmd.gate.__class__))
GateNotKnown(cmd) == [type |-> "TypeError", gate |-> cmd.gate]

NotRaised == [type |-> NoError, gate |-> NoError]

\* AttributeError: 'CIRQ' object has no attribute '_rules'
AttributeError == [type |-> "AttributeError", gate |-> NoError]

\* Faulty variant of is_available: Measure is left to the registry.
is_available_no_measure(kr, cmd) ==
    IF cmd.gate \in {"AllocateQubitGate", "DeallocateQubitGate", "BarrierGate"}
    THEN TRUE
    ELSE IF cmd.gate \in DOMAIN known_rules_copy(kr) THEN TRUE ELSE FALSE

\* CIRQ.is_available
is_available(kr, cmd) ==
    IF cmd.gate \in {"MeasureGate", "AllocateQubitGate", "DeallocateQubitGate",
                     "BarrierGate"}
    THEN TRUE
    ELSE IF cmd.gate \in DOMAIN known_rules_copy(kr) THEN TRUE ELSE FALSE

\* CIRQ._reset
_reset ==
    /\ circuit' = EmptyCircuit
    /\ operations' = <<>>
    /\ mapping' = EmptyDict
    /\ inverse_mapping' = EmptyDict

\* Faulty variant of reset: the saved copies are never put back.
reset_drops_map(keep_map) ==
    /\ circuit' = EmptyCircuit
    /\ operations' = <<>>
    /\ new' = TRUE
    /\ mapping' = EmptyDict
    /\ inverse_mapping' = EmptyDict

\* Faulty variant of reset: the circuit survives the reset.
reset_keeps_circuit(keep_map) ==
    /\ circuit' = circuit
    /\ operations' = <<>>
    /\ new' = TRUE
    /\ mapping' = IF keep_map THEN mapping ELSE EmptyDict
    /\ inverse_mapping' = IF keep_map THEN inverse_mapping ELSE EmptyDict

\* Faulty variant of reset: the pending buffer survives the reset.
reset_keeps_buffer(keep_map) ==
    /\ circuit' = EmptyCircuit
    /\ operations' = operations
    /\ new' = TRUE
    /\ mapping' = IF keep_map THEN mapping ELSE EmptyDict
    /\ inverse_mapping' = IF keep_map THEN inverse_mapping ELSE EmptyDict

\* CIRQ.reset: _reset, then the saved copies are put back when keep_map is set.
reset(keep_map) ==
    LET map_ == mapping
        imap_ == inverse_mapping
    IN  /\ circuit' = EmptyCircuit
        /\ operations' = <<>>
        /\ new' = TRUE
        /\ mapping' = IF keep_map THEN map_ ELSE EmptyDict
        /\ inverse_mapping' = IF keep_map THEN imap_ ELSE EmptyDict

\* Faulty variant of allocate: the next free position instead of the id.
allocate_next_free(mapping_, qb_id) ==
    IF qb_id \notin DOMAIN mapping_
    THEN set_item(mapping_, qb_id, Cardinality(DOMAIN mapping_))
    ELSE mapping_

\* CIRQ._store, the Allocate branch: if qb_id not in mapping: mapping[qb_id] = qb_id
allocate(mapping_, qb_id) ==
    IF qb_id \notin DOMAIN mapping_
    THEN set_item(mapping_, qb_id, qb_id)
    ELSE mapping_

\* Faulty variant of _store: Deallocate removes the qubit's mapping entry.
store_deallocate_removes(cmd) ==
    LET ops0 == IF new THEN <<>> ELSE operations
        qb_id == cmd.qubits[1]
        op == IF has_rules THEN translate(known_rules, cmd, mapping, qubits)
              ELSE Raise("AttributeError")
    IN  /\ new' = FALSE
        /\ inverse_mapping' = inverse_mapping
        /\ IF cmd.gate = "AllocateQubitGate"
           THEN /\ mapping' = allocate(mapping, qb_id)
                /\ operations' = ops0
                /\ err' = NotRaised
           ELSE IF cmd.gate \in {"AllocateQubitGate", "DeallocateQubitGate",
                                 "BarrierGate"}
           THEN /\ mapping' = IF cmd.gate = "DeallocateQubitGate"
                              THEN [q \in DOMAIN mapping \ {qb_id} |-> mapping[q]]
                              ELSE mapping
                /\ operations' = ops0
                /\ err' = NotRaised
           ELSE IF op.error = NoError
           THEN /\ mapping' = mapping
                /\ operations' = Append(ops0, op.op)
                /\ err' = NotRaised
           ELSE /\ mapping' = mapping
                /\ operations' = ops0
                /\ err' = GateNotKnown(cmd)

\* CIRQ._store
_store(cmd) ==
    LET ops0 == IF new THEN <<>> ELSE operations
        qb_id == cmd.qubits[1]
        op == IF has_rules THEN translate(known_rules, cmd, mapping, qubits)
              ELSE Raise("AttributeError")
    IN  /\ new' = FALSE
        /\ inverse_mapping' = inverse_mapping
        /\ IF cmd.gate = "AllocateQubitGate"
           THEN /\ mapping' = allocate(mapping, qb_id)
                /\ operations' = ops0
                /\ err' = NotRaised
           ELSE IF cmd.gate \in {"AllocateQubitGate", "DeallocateQubitGate",
                                 "BarrierGate"}
           THEN /\ mapping' = mapping
                /\ operations' = ops0
                /\ err' = NotRaised
           ELSE IF op.error = NoError
           THEN /\ mapping' = mapping
                /\ operations' = Append(ops0, op.op)
                /\ err' = NotRaised
           ELSE /\ mapping' = mapping
                /\ operations' = ops0
                /\ err' = GateNotKnown(cmd)

Reverse(s) == [i \in 1..Len(s) |-> s[Len(s) + 1 - i]]

\* Faulty variant of _run: the buffer is committed last operation first.
run_reversed ==
    /\ circuit' = circuit_append(circuit, Reverse(operations))
    /\ operations' = <<>>

\* Faulty variant of _run: the buffer is not reset after the commit.
run_keeps_buffer ==
    /\ circuit' = circuit_append(circuit, operations)
    /\ operations' = operations

\* CIRQ._run
_run ==
    /\ circuit' = circuit_append(circuit, operations)
    /\ operations' = <<>>

\* CIRQ.receive: one iteration of its loop, on command cmd.
receive(cmd) ==
    IF cmd.gate # "FlushGate"
    THEN /\ _store(cmd)
         /\ circuit' = circuit
    ELSE /\ _run
         /\ new' = TRUE
         /\ err' = NotRaised
         /\ UNCHANGED <<mapping, inverse_mapping>>

-----------------------------------------------------------------------------
\* The commands the engine is driven with.

Allocate(q) == Plain("AllocateQubitGate", <<q>>, <<>>)

Deallocate(q) == Plain("DeallocateQubitGate", <<q>>, <<>>)

Barrier(q) == Plain("BarrierGate", <<q>>, <<>>)

Flush == Plain("FlushGate", <<>>, <<>>)

Measure(q) == Plain("MeasureGate", <<q>>, <<>>)

SpecialGates == {"AllocateQubitGate", "DeallocateQubitGate", "BarrierGate",
                 "FlushGate"}

\* A command that is handed to the registry.
IsGateCommand(cmd) == cmd.gate \notin SpecialGates

DistinctPairs == {p \in QubitIds \X QubitIds : p[1] # p[2]}

EngineCommands ==
    {Allocate(q) : q \in QubitIds}
    \cup {Deallocate(q) : q \in QubitIds}
    \cup {Barrier(q) : q \in QubitIds}
    \cup {Flush}
    \cup {Measure(q) : q \in QubitIds}
    \cup {Rotation("Rz", <<q>>, <<>>, 10) : q \in QubitIds}
    \cup {Plain("XGate", <<p[1]>>, <<p[2]>>) : p \in DistinctPairs}
    \cup {Plain("TGate", <<q>>, <<>>) : q \in QubitIds}
    \cup {Command("BasicGate", <<q>>, <<>>, NoAngle, NoAngle, "U") : q \in QubitIds}

-----------------------------------------------------------------------------
\* The engine as a state machine.

NoArg == "none"

\* CIRQ(qubits=qubits): the engine after _reset() and self._new = True.
InitEngine ==
    /\ mapping = EmptyDict
    /\ inverse_mapping = EmptyDict
    /\ operations = <<>>
    /\ circuit = EmptyCircuit
    /\ new = TRUE
    /\ calling = FALSE
    /\ err = NotRaised
    /\ result = Raise(NoError)
    /\ ret = FALSE
    /\ reglog = <<>>
    /\ nrules = 0
    /\ ngates = 0
    /\ failed = FALSE

\* strategy keeps its default and rules is None, so self._rules is assigned;
\* xmon_decompositions is as imported.
InitConfig ==
    /\ strategy = "EARLIEST"
    /\ CORRECT_PHASES = FALSE
    /\ has_rules = TRUE

\* CIRQ(qubits=qubits): rules is None, so the shared registry is used.
Init ==
    /\ InitEngine
    /\ InitConfig
    /\ known_rules = DefaultRules
    /\ last = <<"init", NoArg>>

\* receive(command_list) reaches cmd: the first command of a new call, or the next
\* one of the call in progress. An exception ends the call.
Receive(cmd) ==
    /\ IsGateCommand(cmd) => ngates < MaxOps
    /\ receive(cmd)
    /\ calling' = (err' = NotRaised)
    /\ last' = <<"receive", cmd>>
    /\ ngates' = IF IsGateCommand(cmd) THEN ngates + 1 ELSE ngates
    /\ failed' = (failed \/ err' # NotRaised)
    /\ UNCHANGED <<known_rules, result, ret, reglog, nrules, config_vars>>

\* receive's loop reaches the end of its list.
Return ==
    /\ calling
    /\ calling' = FALSE
    /\ err' = NotRaised
    /\ last' = <<"return", NoArg>>
    /\ UNCHANGED <<engine_vars, known_rules, result, ret, reglog, nrules, ngates,
                   failed, config_vars>>

\* reset(keep_map), between two receive calls.
Reset(keep_map) ==
    /\ ~calling
    /\ reset(keep_map)
    /\ err' = NotRaised
    /\ last' = <<"reset", keep_map>>
    /\ ngates' = 0
    /\ failed' = FALSE
    /\ UNCHANGED <<calling, known_rules, result, ret, reglog, nrules, config_vars>>

Next ==
    \/ \E cmd \in EngineCommands : Receive(cmd)
    \/ Return
    \/ \E keep_map \in BOOLEAN : Reset(keep_map)

Spec == Init /\ [][Next]_vars

-----------------------------------------------------------------------------
\* Properties of the engine, checked under Spec.

Range(s) == {s[i] : i \in DOMAIN s}

RECURSIVE all_operations_from(_, _)
all_operations_from(circ, k) ==
    IF k > Len(circ) THEN <<>> ELSE circ[k] \o all_operations_from(circ, k + 1)

\* The operations of a circuit, moment by moment.
AllOperations(circ) == all_operations_from(circ, 1)

\* The operations of a list that act on register qubit g, in the list's order.
ActingOn(ops, g) == SelectSeq(ops, LAMBDA op : g \in Range(op.qubits))

\* The step handles command cmd of a receive call.
Received(cmd) == last'[1] = "receive" /\ last'[2] = cmd

\* C1: when receive meets a Flush, every buffered operation is appended to the
\* circuit in buffer order (on every register qubit the circuit's operations are
\* the old ones followed by the buffer's, and none is lost or added), the buffer
\* is empty afterwards and the fresh flag is set again.
C1_FlushCommitsBuffer ==
    [][Received(Flush) =>
          /\ \A i \in 1..Len(qubits) :
                 ActingOn(AllOperations(circuit'), qubits[i])
                     = ActingOn(AllOperations(circuit), qubits[i])
                           \o ActingOn(operations, qubits[i])
          /\ Len(AllOperations(circuit'))
                 = Len(AllOperations(circuit)) + Len(operations)
          /\ operations' = <<>>
          /\ new' = TRUE]_vars

\* A Flush has committed two buffered operations that share a qubit.
C1_Witness ==
    /\ last = <<"receive", Flush>>
    /\ ngates = 2
    /\ Len(circuit) = 2
    /\ Len(AllOperations(circuit)) = 2
    /\ operations = <<>>
    /\ new

\* C2: as long as no translation failed since construction or the last reset,
\* buffer and circuit together hold exactly one operation per gate command
\* received; after a Flush they are all in the circuit and the buffer is empty.
\* Every mapping entry made by an Allocate is q -> q.
C2_OneOperationPerGate ==
    /\ ~failed => Len(AllOperations(circuit)) + Len(operations) = ngates
    /\ (~failed /\ last = <<"receive", Flush>>) =>
           /\ Len(AllOperations(circuit)) = ngates
           /\ operations = <<>>
    /\ \A q \in DOMAIN mapping : mapping[q] = q

\* Allocate(q), one single-qubit gate on q, Flush: mapping q -> q, one
\* operation in the circuit, an empty buffer.
C2_Witness ==
    /\ last = <<"receive", Flush>>
    /\ ~failed
    /\ ngates = 1
    /\ DOMAIN mapping = {1}
    /\ mapping[1] = 1
    /\ Len(AllOperations(circuit)) = 1
    /\ AllOperations(circuit)[1].qubits = <<qubits[2]>>
    /\ operations = <<>>

\* C3: an Allocate of q adds q -> q when q has no entry and leaves the mapping
\* as it was when q has one; it raises nothing and appends nothing to the buffer.
C3_AllocateMapsIdentity ==
    [][\A q \in QubitIds :
          Received(Allocate(q)) =>
              /\ q \notin DOMAIN mapping =>
                     /\ DOMAIN mapping' = DOMAIN mapping \cup {q}
                     /\ mapping'[q] = q
                     /\ \A k \in DOMAIN mapping : mapping'[k] = mapping[k]
              /\ q \in DOMAIN mapping => mapping' = mapping
              /\ operations' = operations
              /\ err' = NotRaised]_vars

\* Qubit 2 has just been allocated after qubit 0, with an operation pending.
C3_Witness ==
    /\ last = <<"receive", Allocate(2)>>
    /\ DOMAIN mapping = {0, 2}
    /\ mapping[2] = 2
    /\ Len(operations) = 1

\* C4: a command whose kind has no registry entry (and is not Allocate,
\* Deallocate, Barrier or Flush) raises the error naming the kind, and buffer,
\* circuit and mapping are what they were.
C4_UnknownGateRaises ==
    [][(/\ last'[1] = "receive"
        /\ IsGateCommand(last'[2])
        /\ last'[2].gate \notin DOMAIN known_rules) =>
           /\ err' = [type |-> "TypeError", gate |-> last'[2].gate]
           /\ operations' = operations
           /\ circuit' = circuit
           /\ mapping' = mapping]_vars

\* An unregistered gate was refused while an operation was pending.
C4_Witness ==
    /\ last[1] = "receive"
    /\ last[2].gate = "TGate"
    /\ err = [type |-> "TypeError", gate |-> "TGate"]
    /\ Len(operations) = 1
    /\ DOMAIN mapping = {0}

\* C5: reset(keep_map) leaves circuit and buffer empty and the fresh flag set;
\* mapping and inverse mapping are unchanged when keep_map is true and empty
\* when it is false. A reset(keep_map=True) that follows a reset changes nothing.
C5_Reset ==
    [][last'[1] = "reset" =>
          /\ circuit' = EmptyCircuit
          /\ operations' = <<>>
          /\ new' = TRUE
          /\ last'[2] => (mapping' = mapping /\ inverse_mapping' = inverse_mapping)
          /\ ~last'[2] => (mapping' = EmptyDict /\ inverse_mapping' = EmptyDict)
          /\ (last[1] = "reset" /\ last'[2]) => engine_vars' = engine_vars]_vars

\* reset(keep_map=True) has kept a non-empty mapping.
C5_Witness ==
    /\ last = <<"reset", TRUE>>
    /\ DOMAIN mapping = {0, 1}
    /\ circuit = EmptyCircuit
    /\ operations = <<>>
    /\ new

\* Every qubit of the command is allocated to a position inside the register.
AllocatedInRegister(cmd) ==
    /\ AllKeys(mapping, cmd.qubits \o cmd.control_qubits)
    /\ AllInRange(qubits, Lookup(mapping, cmd.qubits \o cmd.control_qubits))

\* C7: is_available returns true only for commands receive can handle: a
\* command it accepts, on qubits allocated inside the register, raises nothing.
C7_AvailableImpliesTranslatable ==
    [][\A cmd \in EngineCommands :
          (/\ Received(cmd)
           /\ is_available(known_rules, cmd)
           /\ AllocatedInRegister(cmd)) => err' = NotRaised]_vars

-----------------------------------------------------------------------------
\* The registry and the translation functions, called directly.

\* Dicts from qubit ids to distinct positions.
Mappings ==
    {m \in UNION {[D -> Positions] : D \in SUBSET QubitIds} :
        \A a, b \in DOMAIN m : m[a] = m[b] => a = b}

\* Lists of at most n distinct ids taken from S.
DistinctLists(S, n) ==
    {l \in UNION {[1..k -> S] : k \in 0..n} :
        \A i, j \in DOMAIN l : l[i] = l[j] => i = j}

ControlLists(targets) == DistinctLists(QubitIds \ Range(targets), MaxControls)

TranslateRegisters == {Register(NumQubits), Register(NumQubits + 1)}

SingleQubitKinds == {"XGate", "YGate", "ZGate", "HGate", "SGate"}

RotationKinds == {"Rx", "Ry", "Rz", "ExpZGate"}

TargetLists == DistinctLists(QubitIds, 2) \ {<<>>}

TranslateCommands ==
    {Plain(g, qs, cs) :
        g \in SingleQubitKinds \cup {"TGate", "MeasureGate"},
        qs \in {l \in TargetLists : Len(l) = 1}, cs \in DistinctLists(QubitIds, MaxControls)}
    \cup {Rotation(g, qs, cs, 10) :
        g \in RotationKinds, qs \in TargetLists, cs \in DistinctLists(QubitIds, MaxControls)}
    \cup {Command("ExpWGate", qs, cs, Rad(30), Rad(10), NoMatrix) :
        qs \in {l \in TargetLists : Len(l) = 1}, cs \in DistinctLists(QubitIds, MaxControls)}
    \cup {Rotation("Exp11Gate", qs, cs, 20) :
        qs \in TargetLists, cs \in DistinctLists(QubitIds, 1)}
    \cup {Command("BasicGate", qs, cs, NoAngle, NoAngle, m) :
        qs \in {l \in TargetLists : Len(l) = 1}, cs \in DistinctLists(QubitIds, MaxControls),
        m \in {"U", NoMatrix}}

\* Controls and targets of a command are different qubits.
WellFormed(cmd) == Range(cmd.qubits) \cap Range(cmd.control_qubits) = {}

\* rules.translate(cmd, mapping, qubits), called by the engine's user.
Translate(cmd, m, r) ==
    /\ result' = translate(known_rules, cmd, m, r)
    /\ last' = <<"translate", [cmd |-> cmd, mapping |-> m, qubits |-> r]>>
    /\ UNCHANGED <<engine_vars, known_rules, calling, err, ret, reglog, nrules,
                   ngates, failed, config_vars>>

\* The arguments of one translate call on the default registry.
InitTranslate ==
    /\ InitEngine
    /\ InitConfig
    /\ known_rules = DefaultRules
    /\ \E cmd \in {c \in TranslateCommands : WellFormed(c)} :
           \E m \in Mappings, r \in TranslateRegisters :
               last = <<"arguments", [cmd |-> cmd, mapping |-> m, qubits |-> r]>>

NextTranslate ==
    /\ last[1] = "arguments"
    /\ Translate(last[2].cmd, last[2].mapping, last[2].qubits)

SpecTranslate == InitTranslate /\ [][NextTranslate]_vars

\* One target, and every qubit of the command resolves to a place of the register.
Resolvable(cmd, m, r) ==
    /\ Len(cmd.qubits) = 1
    /\ \A q \in Range(cmd.qubits) \cup Range(cmd.control_qubits) :
           q \in DOMAIN m /\ m[q] + 1 \in DOMAIN r

\* register[mapping[q]]
Place(m, r, q) == r[m[q] + 1]

BaseGateNames ==
    [Rx |-> "RotXGate", Ry |-> "RotYGate", Rz |-> "RotZGate",
     XGate |-> "X", YGate |-> "Y", ZGate |-> "Z", HGate |-> "H", SGate |-> "S",
     ExpWGate |-> "ExpWGate", ExpZGate |-> "ExpZGate"]

Uncontrolled(cmd) == [cmd EXCEPT !.control_qubits = <<>>]

\* C9: for rotations, Paulis, Hadamard/S and the two native phase gates, a
\* command without controls translates to the base operation on
\* register[mapping[target]]; a command with controls translates to a
\* controlled operation of the same base gate whose qubits are the controls'
\* places in command order followed by the target's place.
C9_ControlsThenTarget ==
    last[1] = "translate" =>
      LET cmd == last[2].cmd
          m == last[2].mapping
          r == last[2].qubits
      IN  (cmd.gate \in DOMAIN BaseGateNames /\ Resolvable(cmd, m, r)) =>
            /\ result.error = NoError
            /\ result.op.gate.name = BaseGateNames[cmd.gate]
            /\ result.op.gate = translate(known_rules, Uncontrolled(cmd), m, r).op.gate
            /\ result.op.controlled = (cmd.control_qubits # <<>>)
            /\ result.op.qubits =
                   [i \in 1..Len(cmd.control_qubits) |->
                       Place(m, r, cmd.control_qubits[i])]
                   \o <<Place(m, r, cmd.qubits[1])>>

\* An Rx with two controls whose places are not in ascending order.
C9_Witness ==
    /\ last[1] = "translate"
    /\ last[2].cmd.gate = "Rx"
    /\ last[2].cmd.qubits = <<1>>
    /\ last[2].cmd.control_qubits = <<2, 0>>
    /\ last[2].mapping = (0 :> 0 @@ 1 :> 1 @@ 2 :> 2)
    /\ result = Ok(ControlledOp(CirqGate("RotXGate", [half_turns |-> 10]),
                                <<GridQubit(2), GridQubit(0), GridQubit(1)>>))

\* C10: a generic gate with a fixed matrix translates to a matrix operation
\* carrying that matrix: on the target's place without controls, and as a
\* controlled operation on the target's place followed by the controls' places
\* with controls.
C10_MatrixGatePassesThrough ==
    last[1] = "translate" =>
      LET cmd == last[2].cmd
          m == last[2].mapping
          r == last[2].qubits
      IN  (cmd.gate = "BasicGate" /\ has_matrix(cmd) /\ Resolvable(cmd, m, r)) =>
            /\ result.error = NoError
            /\ result.op.gate = CirqGate("SingleQubitMatrixGate", [matrix |-> cmd.matrix])
            /\ result.op.controlled = (cmd.control_qubits # <<>>)
            /\ result.op.qubits =
                   <<Place(m, r, cmd.qubits[1])>>
                   \o [i \in 1..Len(cmd.control_qubits) |->
                          Place(m, r, cmd.control_qubits[i])]

-----------------------------------------------------------------------------
\* A registry being filled, and is_available consulting it.

UserA == Rule(<<"XGate", "TGate">>, "user_a")

UserB == Rule(<<"XGate", "XGate">>, "user_b")

RuleChoices == {Paulis, EXP_Z, UserA, UserB}

\* Arguments of add_rules: lists of rules, and a single rule.
RulesArguments ==
    {PyList(<<>>), ALL_RULES, PyList(<<Rx_Ry_Rz, Paulis, H_S, Known_Matrix>>),
     PyList(<<UserA, Paulis>>), UserB}

\* The registrations a rule stands for: (kind, function), one per class it names.
Registrations(rule) ==
    [i \in 1..Len(rule.classes) |-> <<rule.classes[i], rule.translation>>]

RECURSIVE RegistrationsOfList(_)
RegistrationsOfList(rules) ==
    IF rules = <<>> THEN <<>>
    ELSE Registrations(Head(rules)) \o RegistrationsOfList(Tail(rules))

\* Ruleset_pq_to_cirq(): an empty registry.
InitRules ==
    /\ InitEngine
    /\ InitConfig
    /\ known_rules = Ruleset(PyList(<<>>))
    /\ last = <<"init", NoArg>>

registry_frame == <<engine_vars, calling, err, ngates, failed, config_vars>>

AddRule(rule) ==
    /\ nrules < MaxRules
    /\ known_rules' = add_rule(known_rules, rule)
    /\ reglog' = reglog \o Registrations(rule)
    /\ nrules' = nrules + 1
    /\ last' = <<"add_rule", rule>>
    /\ UNCHANGED <<registry_frame, result, ret>>

AddRules(rules) ==
    /\ nrules < MaxRules
    /\ known_rules' = add_rules(known_rules, rules)
    /\ reglog' = reglog \o (IF has_iter(rules) THEN RegistrationsOfList(rules.__iter__)
                            ELSE Registrations(rules))
    /\ nrules' = nrules + 1
    /\ last' = <<"add_rules", rules>>
    /\ UNCHANGED <<registry_frame, result, ret>>

\* eng.is_available(cmd): self._rules is read only after the four special gates.
IsAvailable(cmd) ==
    LET missing == /\ ~has_rules
                   /\ cmd.gate \notin {"MeasureGate", "AllocateQubitGate",
                                       "DeallocateQubitGate", "BarrierGate"}
    IN  /\ ret' = IF missing THEN ret ELSE is_available(known_rules, cmd)
        /\ err' = IF missing THEN AttributeError ELSE NotRaised
        /\ last' = <<"is_available", cmd>>
        /\ UNCHANGED <<engine_vars, calling, ngates, failed, config_vars,
                       known_rules, result, reglog, nrules>>

\* One command of each kind, on qubit 0.
RegistryCommands ==
    {Plain(g, <<0>>, <<>>) :
        g \in SpecialGates \cup SingleQubitKinds \cup {"MeasureGate", "TGate", "SwapGate"}}
    \cup {Rotation(g, <<0>>, <<>>, 10) : g \in RotationKinds}
    \cup {Command("BasicGate", <<0>>, <<>>, NoAngle, NoAngle, "U")}

IdentityMapping == [q \in QubitIds |-> q]

NextRules ==
    \/ \E rule \in RuleChoices : AddRule(rule)
    \/ \E rules \in RulesArguments : AddRules(rules)
    \/ \E cmd \in RegistryCommands :
           Translate(cmd, IdentityMapping, Register(MaxQubitId + 1))
    \/ \E cmd \in RegistryCommands : IsAvailable(cmd)

SpecRules == InitRules /\ [][NextRules]_vars

\* C6: is_available returns true exactly for Measure, Allocate, Deallocate and
\* Barrier and for gates whose kind is a key of the registry; the call leaves
\* the mapping, the buffer, the circuit and the fresh flag alone and adds no
\* key to the registry.
C6_IsAvailable ==
    [][last'[1] = "is_available" =>
          /\ ret' = \/ last'[2].gate \in {"MeasureGate", "AllocateQubitGate",
                                          "DeallocateQubitGate", "BarrierGate"}
                    \/ last'[2].gate \in DOMAIN known_rules
          /\ engine_vars' = engine_vars
          /\ DOMAIN known_rules' = DOMAIN known_rules]_vars

\* A user-registered kind is available; an unregistered one was not.
C6_Witness ==
    /\ last[1] = "is_available"
    /\ last[2].gate = "TGate"
    /\ ret = TRUE
    /\ DOMAIN known_rules = {"XGate", "TGate"}

\* The functions registered so far for a kind, in registration order.
RECURSIVE RegisteredFor(_, _)
RegisteredFor(log, kind) ==
    IF log = <<>> THEN <<>>
    ELSE (IF Head(log)[1] = kind THEN <<Head(log)[2]>> ELSE <<>>)
         \o RegisteredFor(Tail(log), kind)

IsPrefix(s, t) == Len(s) <= Len(t) /\ \A i \in 1..Len(s) : s[i] = t[i]

\* C8: the registry's list of each kind is the functions registered for that
\* kind, in registration order; translate calls the first of them; a
\* registration only ever extends the lists.
C8_RegistrationOrder ==
    /\ [](/\ DOMAIN known_rules = {reglog[i][1] : i \in DOMAIN reglog}
          /\ \A k \in DOMAIN known_rules : known_rules[k] = RegisteredFor(reglog, k)
          /\ (last[1] = "translate" /\ last[2].cmd.gate \in DOMAIN known_rules) =>
                 result = Call(RegisteredFor(reglog, last[2].cmd.gate)[1],
                               last[2].cmd, last[2].mapping, last[2].qubits))
    /\ [][\A k \in DOMAIN known_rules :
             /\ k \in DOMAIN known_rules'
             /\ IsPrefix(known_rules[k], known_rules'[k])]_vars

\* Three functions registered for XGate; translate used the earliest one.
C8_Witness ==
    /\ "XGate" \in DOMAIN known_rules
    /\ known_rules["XGate"] = <<"_pauli_gates", "user_b", "user_b">>
    /\ last[1] = "translate"
    /\ last[2].cmd.gate = "XGate"
    /\ result = Ok(GateOp(CirqGate("X", <<>>), <<GridQubit(0)>>))

-----------------------------------------------------------------------------
\* xmon_gates.py: the native gates.  Half turns are integers counting
\* twentieths of a half turn (20 is one half turn, i.e. pi radians), which
\* holds every value of the grid -1.5, -1, -.5, 0, .25, .3, 1, 1.5, 2.

\* cirq value.canonicalize_half_turns: half_turns %= 2, minus 2 when above 1.
canonicalize_half_turns(half_turns) ==
    LET m == half_turns % 40
    IN  IF m > 20 THEN m - 40 ELSE m

\* cirq value.chosen_angle_to_canonical_half_turns(half_turns=h, rads=None, degs=None)
chosen_angle_to_canonical_half_turns(half_turns) ==
    canonicalize_half_turns(half_turns)

\* The half_turns setter of the three gate classes.
half_turns_setter(half_turns) == chosen_angle_to_canonical_half_turns(half_turns)

\* The axis_half_turns setter of ExpWGate.
axis_half_turns_setter(half_turns) == chosen_angle_to_canonical_half_turns(half_turns)

\* Exp11Gate.__init__
Exp11Gate(half_turns) ==
    [gate |-> "Exp11Gate", half_turns |-> half_turns_setter(half_turns)]

\* ExpZGate.__init__
ExpZGate(half_turns) ==
    [gate |-> "ExpZGate", half_turns |-> half_turns_setter(half_turns)]

\* Faulty variant of ExpWGate.__init__: the axis test is skipped.
ExpWGate_no_flip(half_turns, axis_half_turns) ==
    [gate |-> "ExpWGate",
     half_turns |-> half_turns_setter(half_turns),
     axis_half_turns |-> axis_half_turns_setter(axis_half_turns)]

\* ExpWGate.__init__: both setters, then, when the stored axis is outside
\* [0, 1), a negative rotation around the positive axis.
ExpWGate(half_turns, axis_half_turns) ==
    LET h == half_turns_setter(half_turns)
        a == axis_half_turns_setter(axis_half_turns)
    IN  IF ~(0 <= a /\ a < 20)
        THEN [gate |-> "ExpWGate",
              half_turns |-> half_turns_setter(canonicalize_half_turns(-h)),
              axis_half_turns |-> axis_half_turns_setter(canonicalize_half_turns(a + 20))]
        ELSE [gate |-> "ExpWGate", half_turns |-> h, axis_half_turns |-> a]

\* The angle property: half_turns * cmath.pi
angle_of(gate) == Rad(gate.half_turns)

\* ExpWGate.axis_angle: axis_half_turns * cmath.pi
axis_angle_of(gate) == Rad(gate.axis_half_turns)

\* Faulty variant of get_merged: the half turns of self are kept.
get_merged_keeps_self(self, other) ==
    IF other.gate = self.gate THEN Ok(ExpZGate(DivPi(angle_of(self))))
    ELSE Raise("NotMergeable")

\* ExpZGate.get_merged
get_merged(self, other) ==
    IF other.gate = self.gate
    THEN Ok(ExpZGate(DivPi(Rad(angle_of(self).rad20 + angle_of(other).rad20))))
    ELSE Raise("NotMergeable")

\* Matrix entries are kept exactly, as r * e^{i phase}: r = cos(ref * pi/40)
\* with ref in 0..20 (ref = 20 is zero), and phase counts fortieths of pi
\* modulo 80.  Every entry of the three matrices is such a product.
Zero == [ref |-> 20, phase |-> 0]

One == [ref |-> 0, phase |-> 0]

MinusOne == [ref |-> 0, phase |-> 40]

\* np.cos(x) for x = n * pi/40: its sign and its reference angle.
np_cos(n) ==
    LET t == n % 80
        u == IF t > 40 THEN 80 - t ELSE t
    IN  IF u <= 20 THEN [neg |-> FALSE, ref |-> u] ELSE [neg |-> TRUE, ref |-> 40 - u]

\* np.sin(x) for x = n * pi/40
np_sin(n) == np_cos(n - 20)

\* real * e^{i phase}
Polar(real, phase) ==
    IF real.ref = 20 THEN Zero
    ELSE [ref |-> real.ref, phase |-> (phase + (IF real.neg THEN 40 ELSE 0)) % 80]

\* cos(x) + i sin(x) for x = n * pi/40
cis(n) == [ref |-> 0, phase |-> n % 80]

\* Exp11Gate.matrix: diag(1, 1, 1, exp(i * angle))
Exp11Gate_matrix(gate) ==
    <<<<One, Zero, Zero, Zero>>, <<Zero, One, Zero, Zero>>,
      <<Zero, Zero, One, Zero>>, <<Zero, Zero, Zero, cis(2 * gate.half_turns)>>>>

\* ExpWGate.matrix: exp(.5j * angle) * [[c, -i s W], [-i s conj(W), c]]
ExpWGate_matrix(gate) ==
    LET h == gate.half_turns
        a == gate.axis_half_turns
        c == np_cos(h)
        sn == np_sin(h)
    IN  <<<<Polar(c, h), Polar(sn, h - 20 - 2 * a)>>,
          <<Polar(sn, h - 20 + 2 * a), Polar(c, h)>>>>

\* ExpZGate.matrix: diag(cos(angle/2) - i sin(angle/2), cos(angle/2) + i sin(angle/2))
ExpZGate_matrix(gate) ==
    <<<<cis(-gate.half_turns), Zero>>, <<Zero, cis(gate.half_turns)>>>>

\* gate.matrix
matrix_of(gate) ==
    CASE gate.gate = "Exp11Gate" -> Exp11Gate_matrix(gate)
      [] gate.gate = "ExpWGate" -> ExpWGate_matrix(gate)
      [] gate.gate = "ExpZGate" -> ExpZGate_matrix(gate)

\* The values test_xmon_gates.py constructs the gates from, in twentieths.
Grid == {-30, -20, -10, 0, 5, 6, 20, 30, 40}

\* Class(half_turns, axis_half_turns)
Construct(class, half_turns, axis_half_turns) ==
    CASE class = "Exp11Gate" -> Exp11Gate(half_turns)
      [] class = "ExpWGate" -> ExpWGate(half_turns, axis_half_turns)
      [] class = "ExpZGate" -> ExpZGate(half_turns)

NativeClasses == {"Exp11Gate", "ExpWGate", "ExpZGate"}

\* The calls made on the gate classes: a construction, or a merge of an
\* ExpZGate with another gate.
GateCalls ==
    {[call |-> "construct", class |-> c, half_turns |-> h, axis_half_turns |-> a] :
        c \in NativeClasses, h \in Grid, a \in Grid}
    \cup {[call |-> "get_merged", self |-> ExpZGate(h), other |-> Construct(c, g, a)] :
        h \in Grid, c \in NativeClasses, g \in Grid, a \in {0, 10}}

InitGates ==
    /\ InitEngine
    /\ InitConfig
    /\ known_rules = DefaultRules
    /\ \E call \in GateCalls : last = <<"arguments", call>>

gates_frame == <<engine_vars, known_rules, calling, err, reglog, nrules, ngates,
                 failed, config_vars>>

\* gate = Class(...)
ConstructGate ==
    /\ last[1] = "arguments"
    /\ last[2].call = "construct"
    /\ result' = Ok(Construct(last[2].class, last[2].half_turns, last[2].axis_half_turns))
    /\ last' = <<"construct", last[2]>>
    /\ UNCHANGED <<gates_frame, ret>>

\* gate.matrix, read on the gate just constructed
ReadMatrix ==
    /\ last[1] = "construct"
    /\ ret' = matrix_of(result.op)
    /\ last' = <<"matrix", last[2]>>
    /\ UNCHANGED <<gates_frame, result>>

\* self.get_merged(other)
GetMerged ==
    /\ last[1] = "arguments"
    /\ last[2].call = "get_merged"
    /\ result' = get_merged(last[2].self, last[2].other)
    /\ last' = <<"get_merged", last[2]>>
    /\ UNCHANGED <<gates_frame, ret>>

NextGates ==
    \/ ConstructGate
    \/ ReadMatrix
    \/ GetMerged

SpecGates == InitGates /\ [][NextGates]_vars

\* h lies in (-1, 1].
InCanonicalRange(h) == -20 < h /\ h <= 20

\* x and y differ by an even number of half turns.
SameTurn(x, y) == (x - y) % 40 = 0

\* The value of (-1, 1] that differs from x by an even number of half turns.
Canonical(x) == CHOOSE c \in -19..20 : SameTurn(c, x)

InUnitRange(a) == 0 <= a /\ a < 20

\* What C17 states of a gate built from the arguments `in`, where `flipped`
\* tells whether the axis rule applies.
CanonicalAsStated(in, gate, flipped) ==
    /\ InCanonicalRange(gate.half_turns)
    /\ SameTurn(gate.half_turns, IF flipped THEN -in.half_turns ELSE in.half_turns)
    /\ in.class = "ExpWGate" =>
          /\ InUnitRange(gate.axis_half_turns)
          /\ SameTurn(gate.axis_half_turns,
                      IF flipped THEN in.axis_half_turns + 20 ELSE in.axis_half_turns)
    /\ \A h \in Grid :
          SameTurn(h, in.half_turns) =>
              matrix_of(gate) = matrix_of(Construct(in.class, h, in.axis_half_turns))

\* C17 (as the code has it): a constructed gate stores half turns in (-1, 1]
\* that differ from the input by an even integer; an XY-plane gate stores an
\* axis in [0, 1), and when the CANONICAL value of the input axis is outside
\* [0, 1) the stored half turns are those of the negated input and the stored
\* axis is the input axis plus 1, both canonical.  Half turns that differ by
\* an even integer give equal matrices.
C17_CanonicalParameters ==
    last[1] \in {"construct", "matrix"} =>
        CanonicalAsStated(last[2], result.op,
                          /\ last[2].class = "ExpWGate"
                          /\ ~InUnitRange(Canonical(last[2].axis_half_turns)))

\* ExpWGate(.25, 1.5): the axis is stored as -.5 first, so the gate becomes
\* a rotation by -.25 around the axis .5.
C17_Witness ==
    /\ last[1] = "construct"
    /\ last[2].class = "ExpWGate"
    /\ last[2].half_turns = 5
    /\ last[2].axis_half_turns = 30
    /\ result = Ok([gate |-> "ExpWGate", half_turns |-> -5, axis_half_turns |-> 10])

\* C17 as stated: the axis rule applies when the INPUT axis is outside [0, 1).
C17_FlipOnInputAxis ==
    last[1] \in {"construct", "matrix"} =>
        CanonicalAsStated(last[2], result.op,
                          /\ last[2].class = "ExpWGate"
                          /\ ~InUnitRange(last[2].axis_half_turns))

Identity2 == <<<<One, Zero>>, <<Zero, One>>>>

MinusIdentity2 == <<<<MinusOne, Zero>>, <<Zero, MinusOne>>>>

Identity4 ==
    <<<<One, Zero, Zero, Zero>>, <<Zero, One, Zero, Zero>>,
      <<Zero, Zero, One, Zero>>, <<Zero, Zero, Zero, One>>>>

\* C18: a gate built with half turns 2 has the minus-identity matrix when it
\* is a single-qubit gate (ExpZGate, ExpWGate) and the identity matrix when it
\* is the two-qubit Exp11Gate.
C18_FullTurn ==
    (last[1] = "matrix" /\ last[2].half_turns = 40) =>
        ret = IF last[2].class = "Exp11Gate" THEN Identity4 ELSE MinusIdentity2

\* C19: merging two ExpZGates gives an ExpZGate whose half turns are the sum
\* of theirs, shifted by an even integer into (-1, 1]; the merge is commutative
\* and associative; merging with a gate of another kind raises NotMergeable
\* and returns no gate.
C19_MergeAddsHalfTurns ==
    last[1] = "get_merged" =>
        LET self == last[2].self
            other == last[2].other
        IN  IF other.gate = "ExpZGate"
            THEN /\ result.error = NoError
                 /\ result.op.gate = "ExpZGate"
                 /\ InCanonicalRange(result.op.half_turns)
                 /\ SameTurn(result.op.half_turns, self.half_turns + other.half_turns)
                 /\ result = get_merged(other, self)
                 /\ \A h \in Grid :
                        get_merged(result.op, ExpZGate(h))
                            = get_merged(self, get_merged(other, ExpZGate(h)).op)
            ELSE result = Raise("NotMergeable")

\* ExpZGate(1) merged with ExpZGate(1.5): 1 + (-.5) = .5 half turns.
C19_Witness ==
    /\ last[1] = "get_merged"
    /\ last[2].self.half_turns = 20
    /\ last[2].other = [gate |-> "ExpZGate", half_turns |-> -10]
    /\ result = Ok([gate |-> "ExpZGate", half_turns |-> 10])

-----------------------------------------------------------------------------
\* xmon_decompositions.py: the decomposition rules.  A rewriter returns the
\* commands it sent to the engine, in order, and what it raised.

\* n * pi/40 radians: the argument of a global-phase gate.
Rad40(n) == [rad40 |-> n]

\* x / 2
Half(x) == Rad40(x.rad20)

\* -x
Minus(x) == Rad40(-x.rad40)

\* gate | qubits, inside `with Control(eng, controls)`
Apply(gate, qs, controls) ==
    Command(gate.gate, qs, controls, angle_of(gate),
            IF gate.gate = "ExpWGate" THEN axis_angle_of(gate) ELSE NoAngle, NoMatrix)

\* ops.Ph(x) | qubits, inside `with Control(eng, controls)`
Ph(x, qs, controls) == Command("Ph", qs, controls, x, NoAngle, NoMatrix)

\* ops.H | qubits
H(qs) == Plain("HGate", qs, <<>>)

\* The rewriter returned after sending cmds.
Emitted(cmds) == [error |-> NoError, op |-> [commands |-> cmds]]

\* The rewriter raised e after sending cmds.
RaisedAfter(e, cmds) == [error |-> e, op |-> [commands |-> cmds]]

\* CORRECT_PHASES and (np.pi < angle <= 3 * np.pi)
_check_phase(angle) == CORRECT_PHASES /\ 20 < angle.rad20 /\ angle.rad20 <= 60

_recognize_rotations(cmd) ==
    IF cmd.gate \in {"Rx", "Ry", "Rz"} /\ get_control_count(cmd) = 0 THEN TRUE ELSE FALSE

\* Faulty variant of _decompose_rotations: the phase is the whole angle.
decompose_rotations_full_angle(cmd) ==
    LET qb == cmd.qubits
        cs == cmd.control_qubits
    IN  CASE cmd.gate = "Rx" ->
               Emitted(<<Apply(ExpWGate(DivPi(cmd.angle), 0), qb, cs)>>
                       \o (IF CORRECT_PHASES
                           THEN <<Ph(Minus(Rad40(2 * cmd.angle.rad20)), qb, cs)>> ELSE <<>>))
          [] cmd.gate = "Ry" ->
               Emitted(<<Apply(ExpWGate(DivPi(cmd.angle), 10), qb, cs)>>
                       \o (IF CORRECT_PHASES
                           THEN <<Ph(Minus(Rad40(2 * cmd.angle.rad20)), qb, cs)>> ELSE <<>>))
          [] cmd.gate = "Rz" ->
               Emitted(<<Apply(ExpZGate(DivPi(cmd.angle)), qb, cs)>>
                       \o (IF _check_phase(cmd.angle) THEN <<Ph(Rad40(40), qb, cs)>> ELSE <<>>))
          [] OTHER -> Emitted(<<>>)

_decompose_rotations(cmd) ==
    LET qb == cmd.qubits
        cs == cmd.control_qubits
        angle == cmd.angle
        phase == _check_phase(angle)
    IN  CASE cmd.gate = "Rx" ->
               Emitted(<<Apply(ExpWGate(DivPi(cmd.angle), 0), qb, cs)>>
                       \o (IF CORRECT_PHASES THEN <<Ph(Minus(Half(angle)), qb, cs)>> ELSE <<>>))
          [] cmd.gate = "Ry" ->
               Emitted(<<Apply(ExpWGate(DivPi(cmd.angle), 10), qb, cs)>>
                       \o (IF CORRECT_PHASES THEN <<Ph(Minus(Half(angle)), qb, cs)>> ELSE <<>>))
          [] cmd.gate = "Rz" ->
               Emitted(<<Apply(ExpZGate(DivPi(cmd.angle)), qb, cs)>>
                       \o (IF phase THEN <<Ph(Rad40(40), qb, cs)>> ELSE <<>>))
          [] OTHER -> Emitted(<<>>)

_recognize_paulis(cmd) ==
    IF cmd.gate \in {"XGate", "YGate", "ZGate"} /\ get_control_count(cmd) = 0
    THEN TRUE ELSE FALSE

\* Faulty variant of _decompose_paulis: X and Y use each other's axis.
decompose_paulis_axes_swapped(cmd) ==
    LET qb == cmd.qubits
        cs == cmd.control_qubits
    IN  CASE cmd.gate = "XGate" -> Emitted(<<Apply(ExpWGate(20, 10), qb, cs)>>)
          [] cmd.gate = "YGate" -> Emitted(<<Apply(ExpWGate(20, 0), qb, cs)>>)
          [] cmd.gate = "ZGate" ->
               Emitted(<<Apply(ExpZGate(20), qb, cs)>>
                       \o (IF CORRECT_PHASES THEN <<Ph(Rad40(20), qb, cs)>> ELSE <<>>))
          [] OTHER -> Emitted(<<>>)

_decompose_paulis(cmd) ==
    LET qb == cmd.qubits
        cs == cmd.control_qubits
    IN  CASE cmd.gate = "XGate" -> Emitted(<<Apply(ExpWGate(20, 0), qb, cs)>>)
          [] cmd.gate = "YGate" -> Emitted(<<Apply(ExpWGate(20, 10), qb, cs)>>)
          [] cmd.gate = "ZGate" ->
               Emitted(<<Apply(ExpZGate(20), qb, cs)>>
                       \o (IF CORRECT_PHASES THEN <<Ph(Rad40(20), qb, cs)>> ELSE <<>>))
          [] OTHER -> Emitted(<<>>)

_recognize_H(cmd) ==
    IF cmd.gate = "HGate" /\ get_control_count(cmd) = 0 THEN TRUE ELSE FALSE

\* Faulty variant of _decompose_H: the phase gate is sent whatever the flag is.
decompose_H_always_phase(cmd) ==
    LET qb == cmd.qubits
        cs == cmd.control_qubits
    IN  Emitted(<<Apply(ExpWGate(10, 10), qb, cs), Apply(ExpZGate(20), qb, cs),
                  Ph(Rad40(10), qb, cs)>>)

_decompose_H(cmd) ==
    LET qb == cmd.qubits
        cs == cmd.control_qubits
    IN  Emitted(<<Apply(ExpWGate(10, 10), qb, cs), Apply(ExpZGate(20), qb, cs)>>
                \o (IF CORRECT_PHASES THEN <<Ph(Rad40(10), qb, cs)>> ELSE <<>>))

_recognize_CNOT(cmd) ==
    IF cmd.gate = "XGate" /\ get_control_count(cmd) = 1 THEN TRUE ELSE FALSE

\* Faulty variant of _decompose_CNOT: the Exp11Gate is applied to (target, control).
decompose_CNOT_target_first(cmd) ==
    LET qb == cmd.qubits
    IN  IF cmd.control_qubits = <<>> THEN RaisedAfter("IndexError", <<H(qb)>>)
        ELSE Emitted(<<H(qb),
                       Apply(Exp11Gate(20), <<qb[1], cmd.control_qubits[1]>>, <<>>),
                       H(qb)>>)

\* cmd.control_qubits[0] raises IndexError on a command without controls,
\* after the first Hadamard was sent.
_decompose_CNOT(cmd) ==
    LET qb == cmd.qubits
    IN  IF cmd.control_qubits = <<>> THEN RaisedAfter("IndexError", <<H(qb)>>)
        ELSE Emitted(<<H(qb),
                       Apply(Exp11Gate(20), <<cmd.control_qubits[1], qb[1]>>, <<>>),
                       H(qb)>>)

_recognize_SWAP(cmd) == IF cmd.gate = "SwapGate" THEN TRUE ELSE FALSE

\* The module xmon_gates has no attribute ExpW: the first statement raises
\* AttributeError and nothing is sent.
_decompose_SWAP(cmd) == RaisedAfter("AttributeError", <<>>)

\* DecompositionRule(gate_class, gate_decomposer, gate_recognizer)
DecompositionRule(gate_class, gate_decomposer, gate_recognizer) ==
    [gate_class |-> gate_class, gate_decomposer |-> gate_decomposer,
     gate_recognizer |-> gate_recognizer]

all_defined_decomposition_rules ==
    <<DecompositionRule("Rx", "_decompose_rotations", "_recognize_rotations"),
      DecompositionRule("Ry", "_decompose_rotations", "_recognize_rotations"),
      DecompositionRule("Rz", "_decompose_rotations", "_recognize_rotations"),
      DecompositionRule("XGate", "_decompose_paulis", "_recognize_paulis"),
      DecompositionRule("YGate", "_decompose_paulis", "_recognize_paulis"),
      DecompositionRule("ZGate", "_decompose_paulis", "_recognize_paulis"),
      DecompositionRule("HGate", "_decompose_H", "_recognize_H"),
      DecompositionRule("XGate", "_decompose_CNOT", "_recognize_CNOT"),
      DecompositionRule("SwapGate", "_decompose_SWAP", "_recognize_SWAP")>>

\* rule.gate_recognizer(cmd)
gate_recognizer(rule, cmd) ==
    CASE rule.gate_recognizer = "_recognize_rotations" -> _recognize_rotations(cmd)
      [] rule.gate_recognizer = "_recognize_paulis" -> _recognize_paulis(cmd)
      [] rule.gate_recognizer = "_recognize_H" -> _recognize_H(cmd)
      [] rule.gate_recognizer = "_recognize_CNOT" -> _recognize_CNOT(cmd)
      [] rule.gate_recognizer = "_recognize_SWAP" -> _recognize_SWAP(cmd)

\* rule.gate_decomposer(cmd)
gate_decomposer(rule, cmd) ==
    CASE rule.gate_decomposer = "_decompose_rotations" -> _decompose_rotations(cmd)
      [] rule.gate_decomposer = "_decompose_paulis" -> _decompose_paulis(cmd)
      [] rule.gate_decomposer = "_decompose_H" -> _decompose_H(cmd)
      [] rule.gate_decomposer = "_decompose_CNOT" -> _decompose_CNOT(cmd)
      [] rule.gate_decomposer = "_decompose_SWAP" -> _decompose_SWAP(cmd)

-----------------------------------------------------------------------------
\* A rule applied to a command, again and again, with the policy flag set in
\* between.  last[2] holds the rule and the command throughout.

\* Angles of the rotation gates, in twentieths of pi: projectq keeps them
\* in [0, 4 pi).
RotationAngles == {0, 10, 20, 30, 60, 70}

Targets == {<<t>> : t \in QubitIds}

DecomposeCommands ==
    {Rotation(g, qs, cs, n) :
        g \in {"Rx", "Ry", "Rz"}, qs \in Targets,
        cs \in DistinctLists(QubitIds, MaxControls), n \in RotationAngles}
    \cup {Plain(g, qs, cs) :
        g \in {"XGate", "YGate", "ZGate", "HGate"}, qs \in Targets,
        cs \in DistinctLists(QubitIds, MaxControls)}
    \cup {Plain("SwapGate", qs, cs) :
        qs \in {l \in TargetLists : Len(l) = 2}, cs \in DistinctLists(QubitIds, 1)}

RuleSet == Range(all_defined_decomposition_rules)

InitDecompose ==
    /\ InitEngine
    /\ InitConfig
    /\ known_rules = DefaultRules
    /\ \E rule \in RuleSet :
           \E cmd \in {c \in DecomposeCommands : WellFormed(c)} :
               last = <<"arguments", [rule |-> rule, cmd |-> cmd]>>

decompose_frame == <<engine_vars, known_rules, calling, err, reglog, nrules, ngates,
                     failed, strategy, has_rules>>

\* xmon_decompositions.CORRECT_PHASES = b
SetCorrectPhases(b) ==
    /\ CORRECT_PHASES' = b
    /\ last' = <<"CORRECT_PHASES", last[2]>>
    /\ UNCHANGED <<decompose_frame, result, ret>>

\* The rule is offered the command: its recognizer is asked, and its
\* rewriter runs when the recognizer accepts.
Replace(rule, cmd) ==
    /\ ret' = gate_recognizer(rule, cmd)
    /\ result' = IF ret' THEN gate_decomposer(rule, cmd) ELSE Raise(NoError)
    /\ last' = <<"decompose", [rule |-> rule, cmd |-> cmd]>>
    /\ UNCHANGED <<decompose_frame, CORRECT_PHASES>>

NextDecompose ==
    \/ \E b \in BOOLEAN : SetCorrectPhases(b)
    \/ Replace(last[2].rule, last[2].cmd)

SpecDecompose == InitDecompose /\ [][NextDecompose]_vars

\* The rule has just been offered the command.
Offered == last[1] = "decompose"

\* The step offers the rule to the command.
Offers == last'[1] = "decompose"

NativeW(half_turns, axis_half_turns, qs) ==
    Command("ExpWGate", qs, <<>>, Rad(half_turns), Rad(axis_half_turns), NoMatrix)

NativeZ(half_turns, qs) ==
    Command("ExpZGate", qs, <<>>, Rad(half_turns), NoAngle, NoMatrix)

Native11(half_turns, qs) ==
    Command("Exp11Gate", qs, <<>>, Rad(half_turns), NoAngle, NoMatrix)

NativeSequence(cmd) ==
    LET h == Canonical(DivPi(cmd.angle))
        qs == cmd.qubits
    IN  CASE cmd.gate = "Rx" -> <<NativeW(h, 0, qs)>>
          [] cmd.gate = "Ry" -> <<NativeW(h, 10, qs)>>
          [] cmd.gate = "Rz" -> <<NativeZ(h, qs)>>
          [] cmd.gate = "XGate" -> <<NativeW(20, 0, qs)>>
          [] cmd.gate = "YGate" -> <<NativeW(20, 10, qs)>>
          [] cmd.gate = "ZGate" -> <<NativeZ(20, qs)>>
          [] cmd.gate = "HGate" -> <<NativeW(10, 10, qs), NativeZ(20, qs)>>

SingleQubitRecognizers == {"_recognize_rotations", "_recognize_paulis", "_recognize_H"}

NativeKinds == {"ExpWGate", "Exp11Gate", "ExpZGate"}

\* C13: the SWAP rule rewrites an uncontrolled SWAP, completing, into exactly
\* seven commands, each an ExpWGate, an Exp11Gate or an ExpZGate.
C13_SwapSevenGates ==
    (/\ Offered
     /\ last[2].rule.gate_recognizer = "_recognize_SWAP"
     /\ last[2].cmd.gate = "SwapGate"
     /\ last[2].cmd.control_qubits = <<>>) =>
        /\ ret = TRUE
        /\ result.error = NoError
        /\ Len(result.op.commands) = 7
        /\ \A i \in 1..Len(result.op.commands) : result.op.commands[i].gate \in NativeKinds

\* C14: whenever a recognizer accepts a command, the rewriter completes and
\* every control of the command is a control of each command it emits, or,
\* for the CNOT rule, the first qubit of the Exp11Gate.
C14_ControlsPreserved ==
    (Offered /\ ret = TRUE) =>
        LET cmd == last[2].cmd
        IN  /\ result.error = NoError
            /\ \A c \in Range(cmd.control_qubits) :
                   IF last[2].rule.gate_recognizer = "_recognize_CNOT"
                   THEN \E i \in 1..Len(result.op.commands) :
                            /\ result.op.commands[i].gate = "Exp11Gate"
                            /\ result.op.commands[i].qubits[1] = c
                   ELSE /\ result.op.commands # <<>>
                        /\ \A i \in 1..Len(result.op.commands) :
                               c \in Range(result.op.commands[i].control_qubits)

\* The global-phase commands among the emitted ones.
PhaseCommands(cmds) == SelectSeq(cmds, LAMBDA c : c.gate = "Ph")

\* The rewrites whose native gates differ from the gate by a global phase.
IntroducesPhase(cmd) ==
    \/ cmd.gate \in {"Rx", "Ry", "ZGate", "HGate"}
    \/ cmd.gate = "Rz" /\ 20 < cmd.angle.rad20 /\ cmd.angle.rad20 <= 60

PhaseRules == {"_recognize_rotations", "_recognize_paulis", "_recognize_H",
               "_recognize_CNOT"}

\* C15 (as the code has it): a rotation, Pauli, Hadamard or CNOT rewrite emits
\* a global-phase command exactly when the flag is enabled at that invocation
\* AND the rewrite is one of Rx, Ry, Z, Hadamard, or Rz with an angle in
\* (pi, 3 pi]; X, Y and CNOT never emit one.  Only the flag's value at the
\* invocation counts.
C15_PhaseWhenEnabledAndNeeded ==
    [][(Offers /\ ret' /\ last'[2].rule.gate_recognizer \in PhaseRules) =>
          /\ Len(PhaseCommands(result'.op.commands)) <= 1
          /\ (PhaseCommands(result'.op.commands) # <<>>)
                 = (CORRECT_PHASES /\ IntroducesPhase(last'[2].cmd))]_vars

\* Hadamard rewritten with the flag enabled: the third command is the phase.
C15_Witness ==
    /\ Offered
    /\ CORRECT_PHASES
    /\ last[2].cmd.gate = "HGate"
    /\ ret = TRUE
    /\ Len(result.op.commands) = 3
    /\ result.op.commands[3].gate = "Ph"

\* C15 as stated: a global-phase command is emitted exactly when the flag is
\* enabled at the invocation.
C15_PhaseIffEnabled ==
    [][(Offers /\ ret' /\ last'[2].rule.gate_recognizer \in PhaseRules) =>
          (PhaseCommands(result'.op.commands) # <<>>) = CORRECT_PHASES]_vars

Abs(n) == IF n < 0 THEN -n ELSE n

\* The magnitudes of the emitted global phases, in fortieths of pi.
PhaseMagnitudes(cmds) ==
    [i \in 1..Len(PhaseCommands(cmds)) |-> Abs(PhaseCommands(cmds)[i].angle.rad40)]

\* The magnitudes the code emits, by rewrite.
CodeMagnitudes(rule, cmd) ==
    CASE rule.gate_recognizer = "_recognize_CNOT" -> <<>>
      [] cmd.gate = "HGate" -> <<10>>
      [] cmd.gate \in {"Rx", "Ry"} -> <<cmd.angle.rad20>>
      [] cmd.gate = "Rz" ->
           IF 20 < cmd.angle.rad20 /\ cmd.angle.rad20 <= 60 THEN <<40>> ELSE <<>>
      [] cmd.gate \in {"XGate", "YGate"} -> <<>>
      [] cmd.gate = "ZGate" -> <<20>>

\* The magnitudes C16 states, by rewrite (a rotation by 0 has nothing to cancel).
StatedMagnitudes(rule, cmd) ==
    CASE rule.gate_recognizer = "_recognize_CNOT" -> <<10>>
      [] cmd.gate = "HGate" -> <<20>>
      [] cmd.gate \in {"Rx", "Ry"} -> <<cmd.angle.rad20>>
      [] cmd.gate = "Rz" -> IF cmd.angle.rad20 = 0 THEN <<>> ELSE <<cmd.angle.rad20>>
      [] cmd.gate \in {"XGate", "YGate"} -> <<40>>
      [] cmd.gate = "ZGate" -> <<20>>

\* C16 (as the code has it): with the flag enabled, the global phase emitted
\* has magnitude pi/4 for Hadamard, angle/2 for Rx and Ry, pi for Rz with an
\* angle in (pi, 3 pi], pi/2 for Z; Rz with another angle, X, Y and CNOT emit
\* no global phase.
C16_PhaseMagnitudes ==
    [][(/\ Offers
        /\ ret'
        /\ CORRECT_PHASES
        /\ last'[2].rule.gate_recognizer \in PhaseRules) =>
          PhaseMagnitudes(result'.op.commands) = CodeMagnitudes(last'[2].rule, last'[2].cmd)]_vars

\* Rx(pi/2) with the flag enabled: the phase is -pi/4.
C16_Witness ==
    /\ Offered
    /\ CORRECT_PHASES
    /\ last[2].cmd.gate = "Rx"
    /\ last[2].cmd.angle = Rad(10)
    /\ Len(result.op.commands) = 2
    /\ result.op.commands[2].gate = "Ph"
    /\ result.op.commands[2].angle = Rad40(-10)

\* C16 as stated: pi/2 for Hadamard, pi/4 for CNOT, angle/2 for Rx, Ry and
\* Rz, pi for X and Y, pi/2 for Z.
C16_StatedMagnitudes ==
    [][(/\ Offers
        /\ ret'
        /\ CORRECT_PHASES
        /\ last'[2].rule.gate_recognizer \in PhaseRules) =>
          PhaseMagnitudes(result'.op.commands) = StatedMagnitudes(last'[2].rule, last'[2].cmd)]_vars

-----------------------------------------------------------------------------
\* The engine constructed with an insert strategy: CIRQ(qubits=..., strategy=...).

\* cirq.circuits.InsertStrategy values an engine is constructed with here.
InsertStrategies == {"EARLIEST", "NEW"}

\* InsertStrategy.NEW: the operation gets a new moment at the end of the circuit.
insert_new(circ, op) == Append(circ, <<op>>)

RECURSIVE append_with_loop(_, _, _, _)
append_with_loop(circ, ops, strategy_, i) ==
    IF i > Len(ops) THEN circ
    ELSE append_with_loop(IF strategy_ = "NEW" THEN insert_new(circ, ops[i])
                          ELSE insert_earliest(circ, ops[i]),
                          ops, strategy_, i + 1)

\* circuit.append(ops, strategy=strategy_)
circuit_append_with(circ, ops, strategy_) == append_with_loop(circ, ops, strategy_, 1)

\* CIRQ.__init__ stores the strategy argument in self.strategy.
InitStrategy ==
    /\ InitEngine
    /\ CORRECT_PHASES = FALSE
    /\ strategy \in InsertStrategies
    /\ has_rules = TRUE
    /\ known_rules = DefaultRules
    /\ last = <<"init", NoArg>>

SpecStrategy == InitStrategy /\ [][Next]_vars

\* C20: on every Flush the buffered operations are appended to the circuit
\* with the insert strategy the engine was constructed with.
C20_StrategyInjected ==
    [][Received(Flush) =>
          circuit' = circuit_append_with(circuit, operations, strategy)]_vars

-----------------------------------------------------------------------------
\* The engine constructed with a rules argument: CIRQ(qubits=..., rules=...).

\* xmon_rules_03x.xmon_gates_ruleset
xmon_gates_ruleset == Ruleset(PyList(<<EXP_W, EXP_Z, EXP_11>>))

\* A registry the caller built and extended before handing it to the engine.
caller_ruleset == add_rule(Ruleset(PyList(<<Rx_Ry_Rz, Paulis>>)), UserA)

\* The registries handed to CIRQ as rules.
SuppliedRulesets == {xmon_gates_ruleset, caller_ruleset}

\* CIRQ.__init__: self._rules is assigned only under `if rules is None`; a
\* registry that is handed in exists (known_rules) but the engine holds no
\* reference to it.
InitRulesArg ==
    /\ InitEngine
    /\ strategy = "EARLIEST"
    /\ CORRECT_PHASES = FALSE
    /\ \E rules_is_None \in BOOLEAN :
          /\ has_rules = rules_is_None
          /\ known_rules \in (IF rules_is_None THEN {DefaultRules} ELSE SuppliedRulesets)
          /\ last = <<"init", NoArg>>

\* The commands is_available is asked about.
AvailabilityCommands ==
    {Measure(0), Plain("TGate", <<0>>, <<>>), Rotation("Rz", <<0>>, <<>>, 10),
     Rotation("ExpZGate", <<0>>, <<>>, 10)}

\* is_available is called between two receive calls.
NextRulesArg ==
    \/ Next
    \/ \E cmd \in AvailabilityCommands : ~calling /\ IsAvailable(cmd)

SpecRulesArg == InitRulesArg /\ [][NextRulesArg]_vars

\* The engine was constructed with a rules argument.
RulesGiven == ~has_rules

\* C21: an engine constructed with a rules argument consults that registry:
\* is_available returns whether the kind is one of its keys (or one of the four
\* special gates), and a received gate command is translated by it, entries
\* the caller registered included.
C21_SuppliedRulesUsed ==
    [][RulesGiven =>
          /\ last'[1] = "is_available" =>
                 /\ err' = NotRaised
                 /\ ret' = is_available(known_rules, last'[2])
          /\ \A cmd \in EngineCommands :
                 (Received(cmd) /\ IsGateCommand(cmd)) =>
                     LET op == translate(known_rules, cmd, mapping, qubits)
                     IN  /\ (err' = NotRaised) = (op.error = NoError)
                         /\ op.error = NoError =>
                                operations' = Append(IF new THEN <<>> ELSE operations,
                                                     op.op)]_vars

-----------------------------------------------------------------------------
\* Constructing the engine: CIRQ(qubits, device, rules, strategy).

\* A Python argument: None, or a value.
None == [is_None |-> TRUE]

Some(v) == [is_None |-> FALSE, value |-> v]

is_None(x) == x.is_None

\* bool(x) of an argument that is None or a list.
truthy(x) == ~is_None(x) /\ x.value # <<>>

\* A cirq device: an object with a qubits attribute.
Device(n) == [qubits |-> Register(n)]

\* CIRQ.__init__, the register: the assertion, then self._qubits = qubits or device.qubits
CIRQ_init(qubits_, device) ==
    IF is_None(qubits_) /\ is_None(device) THEN Raise("AssertionError")
    ELSE IF truthy(qubits_)
    THEN Ok([_device |-> device, _qubits |-> qubits_.value])
    ELSE IF is_None(device) THEN Raise("AttributeError")
    ELSE Ok([_device |-> device, _qubits |-> device.value.qubits])

QubitsArguments == {None} \cup {Some(Register(n)) : n \in 1..(NumQubits + 1)}

DeviceArguments == {None} \cup {Some(Device(n)) : n \in 1..(NumQubits + 1)}

ConstructorArguments ==
    [qubits : QubitsArguments, device : DeviceArguments,
     rules_is_None : BOOLEAN, strategy : InsertStrategies]

\* Before the constructor runs: the modules are imported, the arguments chosen.
InitConstruct ==
    /\ InitEngine
    /\ InitConfig
    /\ known_rules = common_gates_ruleset
    /\ \E args \in ConstructorArguments : last = <<"arguments", args>>

\* eng = CIRQ(qubits, device, rules, strategy). The shared registry is
\* extended before the assertion is evaluated.
New ==
    /\ last[1] = "arguments"
    /\ result' = CIRQ_init(last[2].qubits, last[2].device)
    /\ strategy' = last[2].strategy
    /\ has_rules' = last[2].rules_is_None
    /\ known_rules' = IF last[2].rules_is_None THEN add_rules(known_rules, ALL_RULES)
                      ELSE known_rules
    /\ last' = <<"__init__", last[2]>>
    /\ UNCHANGED <<engine_vars, calling, err, ret, reglog, nrules, ngates, failed,
                   CORRECT_PHASES>>

\* eng.qubits
ReadQubits ==
    /\ last[1] = "__init__"
    /\ result.error = NoError
    /\ ret' = result.op._qubits
    /\ last' = <<"qubits", last[2]>>
    /\ UNCHANGED <<engine_vars, calling, err, result, reglog, nrules, ngates, failed,
                   known_rules, config_vars>>

NextConstruct ==
    \/ New
    \/ ReadQubits

SpecConstruct == InitConstruct /\ [][NextConstruct]_vars

\* C22: the constructor succeeds exactly when one of qubits and device is
\* given, not both and not neither, and the engine's register is then the
\* given register or the device's register.
C22_ExactlyOneOfQubitsAndDevice ==
    /\ last[1] = "__init__" =>
           /\ (result.error = NoError)
                  = (is_None(last[2].qubits) # is_None(last[2].device))
    /\ last[1] = "qubits" =>
           ret = IF is_None(last[2].qubits) THEN last[2].device.value.qubits
                 ELSE last[2].qubits.value

-----------------------------------------------------------------------------
\* The engine's mappings, buffer and fresh flag over whole runs.

\* C23: the inverse mapping is the inverse of the mapping: position p maps to
\* qubit q in the inverse mapping exactly when q maps to p in the mapping.
C23_InverseMapping ==
    \A q \in QubitIds : \A p \in Positions :
        (q \in DOMAIN mapping /\ mapping[q] = p)
            <=> (p \in DOMAIN inverse_mapping /\ inverse_mapping[p] = q)

\* The kind is registered and some qubit of the command has no mapping entry.
UnallocatedQubit(cmd) ==
    /\ IsGateCommand(cmd)
    /\ cmd.gate \in DOMAIN known_rules
    /\ ~AllKeys(mapping, cmd.qubits \o cmd.control_qubits)

\* C24: a gate command of a registered kind on a qubit that was never
\* allocated fails with a lookup error, not with the unsupported-gate error,
\* and appends nothing to the buffer.
C24_LookupFailure ==
    [][\A cmd \in EngineCommands :
          (Received(cmd) /\ UnallocatedQubit(cmd)) =>
              /\ err'.type = "KeyError"
              /\ err' # GateNotKnown(cmd)
              /\ operations' = (IF new THEN <<>> ELSE operations)]_vars

\* C25: the mapping changes in two ways only: Allocate of an unmapped q adds
\* q -> q, and reset(keep_map=False) empties it; every other step (gate
\* commands, Deallocate, Barrier, Flush, Allocate of a mapped q,
\* reset(keep_map=True), a failed translation) leaves it as it is.
C25_MappingFrame ==
    [][mapping' =
          IF /\ last'[1] = "receive"
             /\ last'[2].gate = "AllocateQubitGate"
             /\ last'[2].qubits[1] \notin DOMAIN mapping
          THEN set_item(mapping, last'[2].qubits[1], last'[2].qubits[1])
          ELSE IF last'[1] = "reset" /\ last'[2] = FALSE
          THEN EmptyDict
          ELSE mapping]_vars

\* Deallocate of a mapped qubit after a flush: the entry is still there.
C25_Witness ==
    /\ last[1] = "receive"
    /\ last[2].gate = "DeallocateQubitGate"
    /\ last[2].qubits[1] \in DOMAIN mapping
    /\ circuit # EmptyCircuit

\* C26: a failed translation ends the receive call and changes nothing but
\* the call's state: the mapping entries, the buffered operations and the
\* committed circuit of the earlier commands stay, the failing command adds
\* nothing, no further command of the call is processed; a reset after the
\* failure leaves an empty buffer and an empty circuit.
C26_FailureStopsCall ==
    [][/\ (last'[1] = "receive" /\ err' # NotRaised) =>
              /\ mapping' = mapping
              /\ operations' = operations
              /\ circuit' = circuit
              /\ calling' = FALSE
       /\ (failed /\ last'[1] = "reset") =>
              /\ operations' = <<>>
              /\ circuit' = EmptyCircuit]_vars

\* A failure with an allocated qubit and an operation pending in the buffer.
C26_Witness ==
    /\ last[1] = "receive"
    /\ err # NotRaised
    /\ ~calling
    /\ operations # <<>>
    /\ DOMAIN mapping # {}

\* C27: whenever the fresh flag is set the pending buffer is empty.
C27_FreshImpliesEmptyBuffer == new => operations = <<>>

\* The flag set by a Flush that committed operations, after a failure.
C27_Witness ==
    /\ new
    /\ last[1] = "receive"
    /\ last[2].gate = "FlushGate"
    /\ circuit # EmptyCircuit
    /\ failed

\* C28: every position in the mapping is an index of the register, and an Rz
\* on an allocated qubit is translated without error.
C28_PositionsInRegister ==
    /\ \A q \in DOMAIN mapping : AllInRange(qubits, <<mapping[q]>>)
    /\ (/\ last[1] = "receive"
        /\ last[2].gate = "Rz"
        /\ AllKeys(mapping, last[2].qubits)) => err = NotRaised

-----------------------------------------------------------------------------
\* xmon_setup.py: the instruction filter in front of the back end.

\* Subclasses of projectq.ops.ClassicalInstructionGate among the gates used here.
ClassicalInstructionGates ==
    {"MeasureGate", "AllocateQubitGate", "DeallocateQubitGate", "FlushGate"}

\* _filter_xmon(eng, cmd): the command's controls are not looked at.
_filter_xmon(cmd) ==
    IF cmd.gate \in ClassicalInstructionGates THEN TRUE
    ELSE IF cmd.gate \in NativeClasses THEN TRUE
    ELSE FALSE

\* C29: the translation of an Exp11Gate command that passes the filter drops
\* no qubit: the operation acts on the places of both targets and of every
\* control of the command.
C29_NoQubitDropped ==
    last[1] = "translate" =>
      LET cmd == last[2].cmd
          m == last[2].mapping
          r == last[2].qubits
          used == Range(cmd.qubits) \cup Range(cmd.control_qubits)
      IN  (/\ cmd.gate = "Exp11Gate"
           /\ _filter_xmon(cmd)
           /\ Len(cmd.qubits) = 2
           /\ \A q \in used : q \in DOMAIN m /\ m[q] + 1 \in DOMAIN r) =>
            /\ result.error = NoError
            /\ \A q \in used : Place(m, r, q) \in Range(result.op.qubits)

====
